---- MODULE Spec2Model ----
(***************************************************************************)
(* A model of src/src/fraction.rs: the 16-bit integer kernel (gcd, lcm)    *)
(* and the Fraction32 type built on it.                                    *)
(*                                                                         *)
(* Every function of the source is an operator computed the way the code   *)
(* computes it, on integers that keep their 16-bit width.  A call either   *)
(* returns, panics ("Abort") or never returns ("Diverge"); the outcome is  *)
(* a record [kind, n, d].  The state machine applies one operation per     *)
(* step to inputs drawn from bounded sets and records its outcome; gcd is  *)
(* also run one loop iteration per step.                                   *)
(***************************************************************************)
EXTENDS Integers, Sequences, FiniteSets

VARIABLES
    overflow_checks, \* the build: TRUE = arithmetic overflow panics (debug), FALSE = it wraps (release)
    op,              \* the operation applied last
    x, y,            \* its Fraction32 operands, [n |-> numerator, d |-> denominator]
    ua, ub,          \* its u16 operands (gcd, lcm)
    text,            \* its text operand (from_str) or the text fmt produced
    res,             \* its outcome
    pc,              \* "idle": no call made; "loop": inside gcd's loop; "done": the call is over
    a, b, shift      \* the locals of the running gcd call

vars == <<overflow_checks, op, x, y, ua, ub, text, res, pc, a, b, shift>>

(***************************************************************************)
(* Widths and bounds.                                                      *)
(***************************************************************************)
U16_MOD == 65536
I16_MAX == 32767
I16_MIN == -32768

\* gcd and lcm operands are enumerated exhaustively up to MaxSmall, numerators
\* and denominators up to MaxNum; the widths' boundary values are added.
MaxSmall == 6
MaxNum == 3
\* Frames the call stack holds before it is exhausted.
StackFrames == 6
\* Longest enumerated text over the small alphabet.
MaxLen == 2

U16 == 0..(U16_MOD - 1)
I16 == I16_MIN..I16_MAX

(***************************************************************************)
(* Outcomes.                                                               *)
(***************************************************************************)
Out(k, n, d) == [kind |-> k, n |-> n, d |-> d]
Num(v)       == Out("Num", v, 0)        \* an integer was returned
Frac(n, d)   == Out("Fraction", n, d)   \* a Fraction32 was returned
Abort        == Out("Abort", 0, 0)      \* panic
Diverge      == Out("Diverge", 0, 0)    \* the call chain never returns
Nothing      == Out("Nothing", 0, 0)    \* no operation has run

Min(p, q) == IF p < q THEN p ELSE q
Max(p, q) == IF p < q THEN q ELSE p
Abs(v)    == IF v < 0 THEN -v ELSE v

RECURSIVE Pow2(_)
Pow2(k) == IF k = 0 THEN 1 ELSE 2 * Pow2(k - 1)

(***************************************************************************)
(* Machine arithmetic.  Rust's +, -, * panic on overflow when the build    *)
(* has overflow checks and wrap modulo 2^16 when it has not.               *)
(***************************************************************************)
wrap_u16(v) == v % U16_MOD
wrap_i16(v) == LET m == v % U16_MOD IN IF m > I16_MAX THEN m - U16_MOD ELSE m

\* p * q on u16.  The product of two 16-bit values can exceed the 32-bit
\* integers of TLC, so whether it fits is decided by division and its low
\* 16 bits are computed from the two bytes of p.
fits_u16(p, q) == p = 0 \/ q <= (U16_MOD - 1) \div p
low_u16(p, q)  == wrap_u16((((p \div 256) * q) % 256) * 256 + (p % 256) * q)

mul_u16(p, q, checks) ==
    IF fits_u16(p, q) THEN Num(p * q)
    ELSE IF checks THEN Abort ELSE Num(low_u16(p, q))

mul_i16(p, q, checks) ==
    IF p * q \in I16 THEN Num(p * q)
    ELSE IF checks THEN Abort ELSE Num(wrap_i16(p * q))

add_i16(p, q, checks) ==
    IF p + q \in I16 THEN Num(p + q)
    ELSE IF checks THEN Abort ELSE Num(wrap_i16(p + q))

\* i16 / i16 truncates toward zero.
div_i16(p, q) == IF p < 0 THEN -((-p) \div q) ELSE p \div q

\* u16::trailing_zeros, 16 for zero.
RECURSIVE trailing_zeros(_)
trailing_zeros(v) ==
    IF v = 0 THEN 16
    ELSE IF v % 2 = 1 THEN 0 ELSE 1 + trailing_zeros(v \div 2)

\* a | b on u16.
RECURSIVE bitor(_, _)
bitor(p, q) ==
    IF p = 0 THEN q
    ELSE IF q = 0 THEN p
    ELSE Max(p % 2, q % 2) + 2 * bitor(p \div 2, q \div 2)

\* v >> k and v << k on u16; << drops the bits shifted out of the width.
shr(v, k) == v \div Pow2(k)
shl(v, k) == wrap_u16(v * Pow2(k))

(***************************************************************************)
(* gcd (Stein's algorithm).                                                *)
(***************************************************************************)
\* let shift = (a | b).trailing_zeros();
gcd_shift_wrong(p, q) == trailing_zeros(p)
gcd_shift(p, q) == trailing_zeros(bitor(p, q))

\* a >>= a.trailing_zeros();
strip(v) == shr(v, trailing_zeros(v))

\* One iteration of the while loop, on the pair <<a, b>> with a # b.
gcd_step(p, q) ==
    IF p > q THEN <<strip(p - q), q>> ELSE <<p, strip(q - p)>>

RECURSIVE gcd_loop(_, _)
gcd_loop(p, q) ==
    IF p = q THEN p
    ELSE LET s == gcd_step(p, q) IN gcd_loop(s[1], s[2])

gcd(p, q) ==
    IF p = 0 \/ q = 0 THEN bitor(p, q)
    ELSE shl(gcd_loop(strip(p), strip(q)), gcd_shift(p, q))

(***************************************************************************)
(* lcm: a * b / gcd.  The product is machine arithmetic; a zero gcd is a   *)
(* division by zero, which panics in every build.                          *)
(***************************************************************************)
lcm_no_division(p, q, checks) == mul_u16(p, q, checks)
lcm(p, q, checks) ==
    LET g    == gcd(p, q)
        prod == mul_u16(p, q, checks)
    IN  IF prod.kind = "Abort" THEN Abort
        ELSE IF g = 0 THEN Abort
        ELSE Num(prod.n \div g)

(***************************************************************************)
(* Fraction32.  A fraction is [n |-> numerator, d |-> denominator].        *)
(***************************************************************************)
Fraction32(n, d) == [n |-> n, d |-> d]

ZERO    == Fraction32(0, 1)
ONE     == Fraction32(1, 1)
NEG_ONE == Fraction32(-1, 1)

\* The value a call returned, as a fraction.
AsFraction(r) == Fraction32(r.n, r.d)

\* new and reduce call each other: new asserts the bound and calls reduce;
\* reduce returns ZERO for a zero numerator and otherwise divides by the gcd
\* and calls new.  k is the number of frames the stack still holds; a chain
\* that needs more never returns.
RECURSIVE new_call(_, _, _)
RECURSIVE reduce_call(_, _, _)

new_call(n, d, k) ==
    IF k = 0 THEN Diverge
    ELSE IF d > I16_MAX THEN Abort                     \* assert!(denominator <= i16::MAX)
    ELSE reduce_call(n, d, k - 1)

reduce_call(n, d, k) ==
    IF k = 0 THEN Diverge
    ELSE IF n = 0 THEN Frac(ZERO.n, ZERO.d)
    ELSE LET g == gcd(Abs(n), d)
         IN  IF g > I16_MAX THEN Abort                 \* i16::try_from(gcd).unwrap()
             ELSE LET numerator   == div_i16(n, g)
                      denominator == d \div g
                  IN  IF denominator = 0 THEN Abort    \* denominator.try_into().unwrap()
                      ELSE new_call(numerator, denominator, k - 1)

new(n, d) == new_call(n, d, StackFrames)

reduce(f) == reduce_call(f.n, f.d, StackFrames)

\* new_unchecked stores the pair as given; whole is new_unchecked(num, 1).
new_unchecked(n, d) == Frac(n, d)

whole(num) == new_unchecked(num, 1)

signum(v) == IF v > 0 THEN 1 ELSE IF v < 0 THEN -1 ELSE 0

\* Option and Result wrappers of a call that may not have returned.
Some(r) == IF r.kind = "Fraction" THEN Out("Some", r.n, r.d) ELSE r
Ok(r)   == IF r.kind = "Fraction" THEN Out("Ok", r.n, r.d) ELSE r
None    == Out("None", 0, 0)

reciprocal(f, checks) ==
    IF f.d > I16_MAX THEN Abort                        \* i16::try_from(denominator).unwrap()
    ELSE LET numerator == mul_i16(f.d, signum(f.n), checks)
         IN  IF numerator.kind = "Abort" THEN Abort
             ELSE IF Abs(f.n) = 0 THEN None            \* NonZeroU16 try_into().ok()?
             ELSE Some(new(numerator.n, Abs(f.n)))

(***************************************************************************)
(* Comparison.                                                             *)
(***************************************************************************)
Less    == -1
Equal   == 0
Greater == 1

SomeOrdering(o) == Out("SomeOrdering", o, 0)
Ordering(o)     == Out("Ordering", o, 0)

partial_cmp(f, g, checks) ==
    LET l == lcm(f.d, g.d, checks)
    IN  IF l.kind = "Abort" THEN Abort
        ELSE LET self_scale  == l.n \div f.d
                 other_scale == l.n \div g.d
             IN  IF self_scale > I16_MAX THEN None
                 ELSE IF other_scale > I16_MAX THEN None
                 ELSE LET lhs == mul_i16(f.n, self_scale, checks)
                          rhs == mul_i16(g.n, other_scale, checks)
                      IN  IF lhs.kind = "Abort" \/ rhs.kind = "Abort" THEN Abort
                          ELSE SomeOrdering(signum(lhs.n - rhs.n))

cmp(f, g, checks) ==
    LET r == partial_cmp(f, g, checks)
    IN  IF r.kind = "None" THEN Abort                  \* unwrap()
        ELSE IF r.kind = "SomeOrdering" THEN Ordering(r.n)
        ELSE r

(***************************************************************************)
(* Arithmetic operators.                                                   *)
(***************************************************************************)
add(f, g, checks) ==
    LET l == lcm(f.d, g.d, checks)
    IN  IF l.kind = "Abort" THEN Abort
        ELSE LET denominator == l.n
                 self_scale  == denominator \div f.d
                 other_scale == denominator \div g.d
             IN  IF self_scale > I16_MAX \/ other_scale > I16_MAX THEN Abort
                 ELSE LET lhs == mul_i16(f.n, self_scale, checks)
                          rhs == mul_i16(g.n, other_scale, checks)
                      IN  IF lhs.kind = "Abort" \/ rhs.kind = "Abort" THEN Abort
                          ELSE LET numerator == add_i16(lhs.n, rhs.n, checks)
                               IN  IF numerator.kind = "Abort" THEN Abort
                                   ELSE IF denominator = 0 THEN Abort   \* NonZeroU16::new(..).unwrap()
                                   ELSE new(numerator.n, denominator)

mul(f, g, checks) ==
    LET numerator == mul_i16(f.n, g.n, checks)
    IN  IF numerator.kind = "Abort" THEN Abort
        ELSE IF f.d * g.d \notin U16 THEN Abort        \* checked_mul(..).unwrap()
        ELSE new(numerator.n, f.d * g.d)

sub(f, g, checks) ==
    LET neg == mul(g, NEG_ONE, checks)
    IN  IF neg.kind = "Fraction" THEN add(f, AsFraction(neg), checks) ELSE neg

div(f, g, checks) ==
    LET r == reciprocal(g, checks)
    IN  IF r.kind = "None" THEN Abort                  \* unwrap()
        ELSE IF r.kind = "Some" THEN mul(f, AsFraction(r), checks)
        ELSE r

(***************************************************************************)
(* Text.  A text is a sequence of one-character strings.                   *)
(***************************************************************************)
Digits == <<"0", "1", "2", "3", "4", "5", "6", "7", "8", "9">>

IsDigit(c)  == \E i \in 1..10 : Digits[i] = c
DigitVal(c) == (CHOOSE i \in 1..10 : Digits[i] = c) - 1

\* Decimal text of a non-negative integer, and of a signed one.
RECURSIVE fmt_unsigned(_)
fmt_unsigned(v) ==
    IF v < 10 THEN <<Digits[v + 1]>>
    ELSE fmt_unsigned(v \div 10) \o <<Digits[(v % 10) + 1]>>

fmt_signed(v) == IF v < 0 THEN <<"-">> \o fmt_unsigned(-v) ELSE fmt_unsigned(v)

\* write!(f, "{}/{}", self.numerator, self.denominator)
fmt(f) == fmt_signed(f.n) \o <<"/">> \o fmt_unsigned(f.d)

\* The value of a sequence of digits.
RECURSIVE digits_value(_)
digits_value(s) ==
    IF s = <<>> THEN 0
    ELSE 10 * digits_value(SubSeq(s, 1, Len(s) - 1)) + DigitVal(s[Len(s)])

Parsed(v)     == Out("Int", v, 0)
ParseIntError == Out("ParseIntError", 0, 0)

\* str::parse for an integer type with the range lo..hi: an optional sign
\* ("+", and "-" for a signed type), then one or more digits, the value in
\* range.
parse_int(s, signed, lo, hi) ==
    IF s = <<>> THEN ParseIntError
    ELSE IF Len(s) = 1 /\ s[1] \in {"+", "-"} THEN ParseIntError
    ELSE LET negative == signed /\ s[1] = "-"
             digits   == IF s[1] = "+" \/ negative THEN Tail(s) ELSE s
         IN  IF \E i \in 1..Len(digits) : ~IsDigit(digits[i]) THEN ParseIntError
             ELSE LET v == IF negative THEN -digits_value(digits) ELSE digits_value(digits)
                  IN  IF v < lo \/ v > hi THEN ParseIntError ELSE Parsed(v)

parse_i16(s) == parse_int(s, TRUE, I16_MIN, I16_MAX)
parse_u16_as_i16(s) == parse_int(s, FALSE, 0, I16_MAX)
parse_u16(s) == parse_int(s, FALSE, 0, U16_MOD - 1)

\* s.split_once('/'): the position of the first '/', 0 when there is none.
split_once(s) ==
    IF \E i \in 1..Len(s) : s[i] = "/"
    THEN CHOOSE i \in 1..Len(s) : s[i] = "/" /\ \A j \in 1..(i - 1) : s[j] # "/"
    ELSE 0

BadInteger      == Out("BadInteger", 0, 0)
ZeroDenominator == Out("ZeroDenominator", 0, 0)

from_str(s) ==
    LET at == split_once(s)
    IN  IF at > 0
        THEN LET numerator   == parse_i16(SubSeq(s, 1, at - 1))
                 denominator == parse_u16(SubSeq(s, at + 1, Len(s)))
             IN  IF numerator.kind # "Int" THEN BadInteger
                 ELSE IF denominator.kind # "Int" THEN BadInteger
                 ELSE IF denominator.n = 0 THEN ZeroDenominator
                 ELSE Ok(new(numerator.n, denominator.n))
        ELSE LET num == parse_i16(s)
             IN  IF num.kind # "Int" THEN BadInteger ELSE Ok(whole(num.n))

(***************************************************************************)
(* Inputs.                                                                 *)
(***************************************************************************)
U16Vals == (0..MaxSmall) \cup {255, 256, 257, I16_MAX, I16_MAX + 1, U16_MOD - 1}
NumVals == ((-MaxNum)..MaxNum) \cup {I16_MIN, -256, 256, I16_MAX}
DenVals == (1..MaxNum) \cup {256, I16_MAX}
\* Denominators above the bound new asserts.
BigDens == {I16_MAX + 1, U16_MOD - 1}

\* The fractions new_unchecked builds within its safety precondition.
Operands == {Fraction32(n, d) : n \in NumVals, d \in DenVals}

Alphabet == {"0", "1", "-", "+", "/", "x"}
SmallTexts == UNION {[1..k -> Alphabet] : k \in 0..MaxLen}
NumTokens ==
    {fmt_signed(n) : n \in NumVals}
    \cup {<<>>, <<"-">>, <<"x">>, <<"+", "1">>, <<"1", "x">>,
          fmt_signed(I16_MAX + 1), fmt_signed(I16_MIN - 1)}
DenTokens ==
    {fmt_unsigned(d) : d \in DenVals \cup BigDens \cup {0, U16_MOD, 70000}}
    \cup {<<>>, <<"x">>, <<"0", "0">>, <<"+", "0">>, <<"-", "0">>, <<"+", "2">>,
          <<"-", "1">>, <<"1", "/", "2">>}
Texts ==
    {n \o <<"/">> \o d : n \in NumTokens, d \in DenTokens}
    \cup NumTokens \cup SmallTexts

(***************************************************************************)
(* The state machine.                                                      *)
(***************************************************************************)
Init ==
    /\ overflow_checks \in BOOLEAN
    /\ op = "init"
    /\ x = ZERO /\ y = ZERO
    /\ ua = 0 /\ ub = 0
    /\ text = <<>>
    /\ res = Nothing
    /\ pc = "idle"
    /\ a = 0 /\ b = 0 /\ shift = 0

\* One whole call of an operation: its operands and its outcome are recorded.
Apply(name, f, g, p, q, s, r) ==
    /\ op' = name
    /\ x' = f /\ y' = g
    /\ ua' = p /\ ub' = q
    /\ text' = s
    /\ res' = r
    /\ pc' = "done"
    /\ UNCHANGED <<overflow_checks, a, b, shift>>

New ==
    /\ pc = "idle"
    /\ \E n \in NumVals, d \in DenVals \cup BigDens :
          Apply("new", Fraction32(n, d), ZERO, 0, 0, <<>>, new(n, d))

Whole ==
    /\ pc = "idle"
    /\ \E n \in NumVals :
          Apply("whole", Fraction32(n, 1), ZERO, 0, 0, <<>>, whole(n))

\* Called within its safety precondition: the denominator is neither zero nor
\* larger than i16::MAX.
NewUnchecked ==
    /\ pc = "idle"
    /\ \E n \in NumVals, d \in DenVals :
          Apply("new_unchecked", Fraction32(n, d), ZERO, 0, 0, <<>>, new_unchecked(n, d))

Reduce ==
    /\ pc = "idle"
    /\ \E f \in Operands :
          Apply("reduce", f, ZERO, 0, 0, <<>>, reduce(f))

Reciprocal ==
    /\ pc = "idle"
    /\ \E f \in Operands :
          Apply("reciprocal", f, ZERO, 0, 0, <<>>, reciprocal(f, overflow_checks))

PartialCmp ==
    /\ pc = "idle"
    /\ \E f, g \in Operands :
          Apply("partial_cmp", f, g, 0, 0, <<>>, partial_cmp(f, g, overflow_checks))

Cmp ==
    /\ pc = "idle"
    /\ \E f, g \in Operands :
          Apply("cmp", f, g, 0, 0, <<>>, cmp(f, g, overflow_checks))

Add ==
    /\ pc = "idle"
    /\ \E f, g \in Operands :
          Apply("add", f, g, 0, 0, <<>>, add(f, g, overflow_checks))

Sub ==
    /\ pc = "idle"
    /\ \E f, g \in Operands :
          Apply("sub", f, g, 0, 0, <<>>, sub(f, g, overflow_checks))

Mul ==
    /\ pc = "idle"
    /\ \E f, g \in Operands :
          Apply("mul", f, g, 0, 0, <<>>, mul(f, g, overflow_checks))

Div ==
    /\ pc = "idle"
    /\ \E f, g \in Operands :
          Apply("div", f, g, 0, 0, <<>>, div(f, g, overflow_checks))

FromStr ==
    /\ pc = "idle"
    /\ \E s \in Texts :
          Apply("from_str", ZERO, ZERO, 0, 0, s, from_str(s))

\* x.to_string().parse(): fmt, then from_str on the text it wrote.
FmtFromStr ==
    /\ pc = "idle"
    /\ \E f \in Operands :
          Apply("fmt_from_str", f, ZERO, 0, 0, fmt(f), from_str(fmt(f)))

Lcm ==
    /\ pc = "idle"
    /\ \E p, q \in U16Vals :
          Apply("lcm", ZERO, ZERO, p, q, <<>>, lcm(p, q, overflow_checks))

\* gcd, one step at a time: the entry up to the loop, one loop iteration, the
\* return.
GcdCall ==
    /\ pc = "idle"
    /\ \E p, q \in U16Vals :
          /\ op' = "gcd"
          /\ x' = ZERO /\ y' = ZERO /\ text' = <<>>
          /\ ua' = p /\ ub' = q
          /\ IF p = 0 \/ q = 0
             THEN /\ res' = Num(bitor(p, q))
                  /\ pc' = "done"
                  /\ a' = p /\ b' = q /\ shift' = 0
             ELSE /\ res' = Nothing
                  /\ pc' = "loop"
                  /\ shift' = gcd_shift(p, q)
                  /\ a' = strip(p) /\ b' = strip(q)
          /\ UNCHANGED overflow_checks

GcdIter ==
    /\ pc = "loop"
    /\ a # b
    /\ a' = gcd_step(a, b)[1]
    /\ b' = gcd_step(a, b)[2]
    /\ UNCHANGED <<overflow_checks, op, x, y, ua, ub, text, res, pc, shift>>

GcdReturn ==
    /\ pc = "loop"
    /\ a = b
    /\ res' = Num(shl(a, shift))
    /\ pc' = "done"
    /\ UNCHANGED <<overflow_checks, op, x, y, ua, ub, text, a, b, shift>>

\* The caller goes on to its next call, in the same build.
NextCall ==
    /\ pc = "done"
    /\ op' = "init"
    /\ x' = ZERO /\ y' = ZERO
    /\ ua' = 0 /\ ub' = 0
    /\ text' = <<>>
    /\ res' = Nothing
    /\ pc' = "idle"
    /\ a' = 0 /\ b' = 0 /\ shift' = 0
    /\ UNCHANGED overflow_checks

Next ==
    \/ New \/ Whole \/ NewUnchecked \/ Reduce \/ Reciprocal
    \/ PartialCmp \/ Cmp
    \/ Add \/ Sub \/ Mul \/ Div
    \/ FromStr \/ FmtFromStr
    \/ Lcm
    \/ GcdCall \/ GcdIter \/ GcdReturn
    \/ NextCall

Spec == Init /\ [][Next]_vars

\* A call that has entered its loop keeps running: the loop iterates while
\* a # b and returns when a = b.
FairSpec == Spec /\ WF_vars(GcdIter) /\ WF_vars(GcdReturn)

(***************************************************************************)
(* Reference notions the claims are stated with.                           *)
(***************************************************************************)
\* The greatest common divisor by its definition: the largest number that
\* divides both (0 when both are 0).
CommonDivisors(p, q) == {g \in 1..Max(p, q) : p % g = 0 /\ q % g = 0}
MathGcd(p, q) ==
    IF p = 0 /\ q = 0 THEN 0
    ELSE CHOOSE g \in CommonDivisors(p, q) : \A h \in CommonDivisors(p, q) : h <= g

Coprime(p, q) == \A g \in 2..Min(p, q) : ~(p % g = 0 /\ q % g = 0)

\* Invariant A: in lowest terms, zero being 0/1.  Invariant B: the
\* denominator is in 1..=32767.
InvariantA(f) == IF f.n = 0 THEN f.d = 1 ELSE Coprime(Abs(f.n), f.d)
InvariantB(f) == f.d >= 1 /\ f.d <= I16_MAX
WellFormed(f) == InvariantA(f) /\ InvariantB(f)

Returned(r) == r.kind \in {"Fraction", "Some", "Ok"}

\* The exact rational num/den (den > 0) is the reduced fraction r.
IsExactly(r, num, den) ==
    /\ r.d >= 1
    /\ den % r.d = 0
    /\ LET k == den \div r.d
       IN  Abs(num) % k = 0 /\ div_i16(num, k) = r.n
    /\ InvariantA(AsFraction(r))

\* The exact result of x op y as a numerator over a positive denominator.
ExactNum(o, f, g) ==
    CASE o = "add" -> f.n * g.d + g.n * f.d
      [] o = "sub" -> f.n * g.d - g.n * f.d
      [] o = "mul" -> f.n * g.n
      [] o = "div" -> f.n * g.d * signum(g.n)
ExactDen(o, f, g) ==
    CASE o = "div" -> f.d * Abs(g.n)
      [] OTHER     -> f.d * g.d

(***************************************************************************)
(* C1.  For every numerator in -32768..=32767 and denominator in           *)
(* 1..=32767, new(n, d) terminates and returns a value, and so does        *)
(* reduce() on any such fraction.                                          *)
(***************************************************************************)
C1_NewAndReduceReturn ==
    (op \in {"new", "reduce"} /\ InvariantB(x)) => res.kind = "Fraction"

\* Why the chain does not return, whatever the stack holds: for a nonzero
\* numerator reduce passes new the pair divided by its gcd, new passes it
\* back to reduce, and that pair's gcd is 1, so from then on every call has
\* the arguments of the call two frames above it.
NewChainRepeats ==
    (op = "new" /\ InvariantB(x) /\ x.n # 0) =>
        LET g  == gcd(Abs(x.n), x.d)
            n1 == div_i16(x.n, g)
            d1 == x.d \div g
        IN  /\ n1 # 0 /\ d1 >= 1 /\ d1 <= I16_MAX
            /\ gcd(Abs(n1), d1) = 1
            /\ res = Diverge

(***************************************************************************)
(* C2.  Every value returned by whole, new, new_unchecked (within its      *)
(* safety precondition), reduce, reciprocal, from_str, +, -, * and /       *)
(* satisfies Invariant A.                                                  *)
(***************************************************************************)
C2_ReturnedValuesReduced ==
    (/\ op \in {"whole", "new", "new_unchecked", "reduce", "reciprocal",
                "from_str", "add", "sub", "mul", "div"}
     /\ Returned(res))
        => InvariantA(AsFraction(res))

(***************************************************************************)
(* C3.  For well-formed a and b, partial_cmp returns Some(o) and cmp       *)
(* returns o, o being the sign of a.n * b.d - b.n * a.d; neither aborts    *)
(* nor returns None.                                                       *)
(***************************************************************************)
C3_FullOrdering ==
    (op \in {"partial_cmp", "cmp"} /\ WellFormed(x) /\ WellFormed(y))
        => LET o == signum(x.n * y.d - y.n * x.d)
           IN  res = IF op = "cmp" THEN Ordering(o) ELSE SomeOrdering(o)

(***************************************************************************)
(* C4.  reciprocal() of a well-formed fraction never aborts: it is None    *)
(* for a zero numerator and for the numerator -32768, and otherwise Some   *)
(* of d * sign(n) over |n|.                                                *)
(***************************************************************************)
C4_ReciprocalOutcome ==
    (op = "reciprocal" /\ WellFormed(x))
        => res = IF x.n = 0 \/ x.n = I16_MIN THEN None
                 ELSE Out("Some", x.d * signum(x.n), Abs(x.n))

(***************************************************************************)
(* C5.  For well-formed operands, +, -, * and / either abort or return     *)
(* the exact reduced result, in either build: no returned value differs    *)
(* from the exact one.                                                     *)
(***************************************************************************)
C5_NoSilentWrap ==
    (/\ op \in {"add", "sub", "mul", "div"}
     /\ WellFormed(x) /\ WellFormed(y)
     /\ res.kind = "Fraction")
        => /\ ExactDen(op, x, y) > 0
           /\ IsExactly(res, ExactNum(op, x, y), ExactDen(op, x, y))

(***************************************************************************)
(* C6.  For every well-formed x, x - x returns ZERO.                       *)
(***************************************************************************)
C6_AdditiveInverse ==
    (op = "sub" /\ x = y /\ WellFormed(x)) => res = Frac(0, 1)

(***************************************************************************)
(* C7.  For every well-formed x, parsing the Display text of x returns     *)
(* Ok(x).                                                                  *)
(***************************************************************************)
C7_RoundTrip ==
    (op = "fmt_from_str" /\ WellFormed(x)) => res = Out("Ok", x.n, x.d)

(***************************************************************************)
(* The tokens of a text as the claims about from_str speak of them.        *)
(***************************************************************************)
HasSlash(s) == \E i \in 1..Len(s) : s[i] = "/"
FirstSlash(s) == CHOOSE i \in 1..Len(s) : s[i] = "/" /\ \A j \in 1..(i - 1) : s[j] # "/"
NumeratorToken(s)   == IF HasSlash(s) THEN SubSeq(s, 1, FirstSlash(s) - 1) ELSE s
DenominatorToken(s) == SubSeq(s, FirstSlash(s) + 1, Len(s))

AllDigits(t) == t # <<>> /\ \A i \in 1..Len(t) : t[i] \in {"0", "1", "2", "3", "4", "5", "6", "7", "8", "9"}
\* A well-formed signed integer: an optional sign and digits; an unsigned
\* one takes no "-".
WellFormedSigned(t)   == t # <<>> /\ IF t[1] \in {"+", "-"} THEN AllDigits(Tail(t)) ELSE AllDigits(t)
WellFormedUnsigned(t) == t # <<>> /\ IF t[1] = "+" THEN AllDigits(Tail(t)) ELSE AllDigits(t)

RECURSIVE DecimalValue(_)
DecimalValue(t) ==
    IF t = <<>> THEN 0
    ELSE LET c == t[Len(t)]
             v == CASE c = "0" -> 0 [] c = "1" -> 1 [] c = "2" -> 2 [] c = "3" -> 3
                    [] c = "4" -> 4 [] c = "5" -> 5 [] c = "6" -> 6 [] c = "7" -> 7
                    [] c = "8" -> 8 [] c = "9" -> 9
         IN  10 * DecimalValue(SubSeq(t, 1, Len(t) - 1)) + v
TokenValue(t) ==
    IF t[1] = "-" THEN -DecimalValue(Tail(t))
    ELSE IF t[1] = "+" THEN DecimalValue(Tail(t))
    ELSE DecimalValue(t)

\* The token denotes an integer its target type holds.
NumeratorFits(t)   == WellFormedSigned(t) /\ TokenValue(t) >= I16_MIN /\ TokenValue(t) <= I16_MAX
DenominatorFits(t) == WellFormedUnsigned(t) /\ TokenValue(t) <= U16_MOD - 1

(***************************************************************************)
(* C8 as stated.  from_str returns Err(BadInteger) only when a token is    *)
(* not a well-formed integer, Err(ZeroDenominator) for a well-formed       *)
(* numerator and a zero denominator token, and every well-formed           *)
(* denominator greater than 32767 is the fatal bounds violation of new,    *)
(* never a recoverable parse error.  (A numerator token counts as          *)
(* well-formed when it denotes an i16; a denominator token when it is an   *)
(* unsigned decimal of any size, since the claim speaks of well-formed     *)
(* over-large denominators.)                                               *)
(***************************************************************************)
C8_ParseFailureKinds ==
    op = "from_str" =>
        LET nt == NumeratorToken(text)
            dt == DenominatorToken(text)
        IN  /\ res = BadInteger =>
                  \/ ~NumeratorFits(nt)
                  \/ HasSlash(text) /\ ~WellFormedUnsigned(dt)
            /\ (HasSlash(text) /\ NumeratorFits(nt) /\ WellFormedUnsigned(dt)
                    /\ TokenValue(dt) = 0)
                  => res = ZeroDenominator
            /\ (HasSlash(text) /\ NumeratorFits(nt) /\ WellFormedUnsigned(dt)
                    /\ TokenValue(dt) > I16_MAX)
                  => res = Abort

(***************************************************************************)
(* C8 as amended.  from_str returns Err(BadInteger) exactly when the       *)
(* numerator token is not a well-formed integer within -32768..=32767 or   *)
(* the denominator token is not a well-formed unsigned integer within      *)
(* 0..=65535; it returns Err(ZeroDenominator) for a fitting numerator      *)
(* and a zero denominator token; a denominator in 32768..=65535 is the     *)
(* fatal bounds violation of new; a denominator above 65535 is             *)
(* Err(BadInteger).                                                        *)
(***************************************************************************)
C8_ParseFailureKindsAmended ==
    op = "from_str" =>
        LET nt == NumeratorToken(text)
            dt == DenominatorToken(text)
        IN  /\ res = BadInteger <=>
                  \/ ~NumeratorFits(nt)
                  \/ HasSlash(text) /\ ~DenominatorFits(dt)
            /\ (HasSlash(text) /\ NumeratorFits(nt) /\ DenominatorFits(dt)
                    /\ TokenValue(dt) = 0)
                  => res = ZeroDenominator
            /\ res = ZeroDenominator =>
                  (HasSlash(text) /\ NumeratorFits(nt) /\ DenominatorFits(dt)
                    /\ TokenValue(dt) = 0)
            /\ (HasSlash(text) /\ NumeratorFits(nt) /\ DenominatorFits(dt)
                    /\ TokenValue(dt) > I16_MAX)
                  => res = Abort
            /\ (HasSlash(text) /\ NumeratorFits(nt) /\ WellFormedUnsigned(dt)
                    /\ TokenValue(dt) > U16_MOD - 1)
                  => res = BadInteger

\* from_str was given "1/70000" and "1/32768": the first is reported as
\* BadInteger, the second aborted.
C8_Witness ==
    /\ op = "from_str"
    /\ \/ text = <<"1", "/", "7", "0", "0", "0", "0">> /\ res = BadInteger
       \/ text = <<"1", "/", "3", "2", "7", "6", "8">> /\ res = Abort

(***************************************************************************)
(* C9.  For all a, b in 0..=65535, gcd(a, b) terminates, each iteration    *)
(* of its loop strictly decreasing the larger operand, and returns the     *)
(* greatest common divisor without overflowing 16 bits; gcd(a, 0) == a,    *)
(* gcd(0, 0) == 0 and gcd(a, b) == gcd(b, a).                              *)
(***************************************************************************)
C9_GcdState ==
    /\ pc = "loop" =>
          /\ a \in 1..(U16_MOD - 1) /\ b \in 1..(U16_MOD - 1)
          /\ a % 2 = 1 /\ b % 2 = 1
    /\ (op = "gcd" /\ pc = "done") =>
          /\ res = Num(MathGcd(ua, ub))
          /\ a * Pow2(shift) <= U16_MOD - 1
          /\ res.n = gcd(ua, ub)
          /\ res.n = gcd(ub, ua)
          /\ ub = 0 => res.n = ua
          /\ (ua = 0 /\ ub = 0) => res.n = 0

C9_GcdStep ==
    (pc = "loop" /\ pc' = "loop") =>
        /\ Max(a', b') < Max(a, b)
        /\ a' >= 1 /\ b' >= 1

C9_Gcd ==
    /\ []C9_GcdState
    /\ [][C9_GcdStep]_vars
    /\ (pc = "loop") ~> (pc = "done")

\* gcd(65535, 255) ran its loop and returned 255.
C9_Witness ==
    op = "gcd" /\ pc = "done" /\ ua = U16_MOD - 1 /\ ub = 255 /\ res = Num(255)

(***************************************************************************)
(* C10 as stated.  For all a, b in 0..=65535 whose product fits 16 bits,   *)
(* lcm(a, b) returns a value and lcm(a, b) * gcd(a, b) == a * b.           *)
(***************************************************************************)
ProductFits(p, q) == p = 0 \/ q <= (U16_MOD - 1) \div p

C10_LcmTimesGcd ==
    (op = "lcm" /\ ProductFits(ua, ub))
        => res.kind = "Num" /\ res.n * gcd(ua, ub) = ua * ub

(***************************************************************************)
(* C10 as amended.  For all a, b in 0..=65535, not both zero, whose        *)
(* product fits 16 bits, lcm(a, b) returns a value and                     *)
(* lcm(a, b) * gcd(a, b) == a * b; lcm(0, 0) aborts (division by zero).    *)
(***************************************************************************)
C10_LcmTimesGcdAmended ==
    /\ (op = "lcm" /\ ProductFits(ua, ub) /\ ~(ua = 0 /\ ub = 0))
          => res.kind = "Num" /\ res.n * gcd(ua, ub) = ua * ub
    /\ (op = "lcm" /\ ua = 0 /\ ub = 0) => res = Abort

\* lcm(6, 4) returned 12, and 12 * gcd(6, 4) = 24.
C10_Witness ==
    op = "lcm" /\ ua = 6 /\ ub = 4 /\ res = Num(12) /\ gcd(6, 4) = 2

====
